---- MODULE Spec2Model ----
(***************************************************************************)
(* A model of pycastic, a project-wide refactoring engine for Python.      *)
(*                                                                         *)
(* A source file is modelled by its concrete syntax tree reduced to what   *)
(* the engine reads and writes: the module docstring's words, and the      *)
(* sequence of top-level statements (imports and definitions, each         *)
(* definition with the Name nodes of its body).  The filesystem maps the   *)
(* paths of the .py files to their stored bytes (text and line-ending      *)
(* convention) and keeps the set of directories.                           *)
(***************************************************************************)
EXTENDS Integers, Sequences, FiniteSets, TLC

VARIABLES
    fs,        \* path -> stored file: [content, eol]
    dirs,      \* the directories that exist (paths; <<>> is the project root)
    call,      \* the operation in progress and its arguments
    pc,        \* the position inside the operation
    cl,        \* locals of resolve_move_dependencies
    mv,        \* locals of move_symbol
    changes,   \* the dict `changes`: a sequence of <<path, content>>
    result,    \* what the operation returned or raised
    fs0,       \* the files when the operation was called
    dirs0,     \* the directories when the operation was called
    calls,     \* number of operations started
    prev       \* the operation before this one: its call, files and result

vars == <<fs, dirs, call, pc, cl, mv, changes, result, fs0, dirs0, calls, prev>>

----------------------------------------------------------------------------
(* Bounds of the model *)

\* most Name nodes (summed over the bodies) of a generated source file
MaxUses == 3

\* most operations called one after the other on a project
MaxCalls == 2

\* most characters of a target string after its first part
MaxTail == 5

\* most statements in the body of a module with nested definitions
MaxBody == 2

----------------------------------------------------------------------------
(* Generic helpers *)

Range(s) == {s[i] : i \in 1..Len(s)}

RECURSIVE SeqOfSet(_)
\* some enumeration of a finite set (used where the order is not observable)
SeqOfSet(S) == IF S = {} THEN <<>>
               ELSE LET x == CHOOSE y \in S : TRUE IN <<x>> \o SeqOfSet(S \ {x})

\* all enumerations of a finite set
Perms(S) == {p \in [1..Cardinality(S) -> S] : \A x \in S : \E i \in DOMAIN p : p[i] = x}

Front(s) == SubSeq(s, 1, Len(s) - 1)

Last(s) == s[Len(s)]

RECURSIVE Sum(_, _)
Sum(f, S) == IF S = {} THEN 0
             ELSE LET x == CHOOSE y \in S : TRUE IN f[x] + Sum(f, S \ {x})

----------------------------------------------------------------------------
(* Identifiers and text *)

\* The letters of a word.  The words that are not listed are atoms: the
\* symbols the operations are called on (g, h, k, q and gh) do not occur
\* inside them, nor they inside the symbols.
Spelling(n) ==
    CASE n = "gh"      -> <<"g", "h">>
      [] n = "Package" -> <<"P", "a", "c", "k", "a", "g", "e">>
      [] OTHER         -> <<n>>

\* Python's `a in b` on two strings that are single tokens
IsSubstring(a, b) ==
    LET sa == Spelling(a)
        sb == Spelling(b)
    IN \E i \in 0..(Len(sb) - Len(sa)) :
          \A k \in 1..Len(sa) : sb[i + k] = sa[k]

----------------------------------------------------------------------------
(* Concrete syntax trees *)

NoAlias == ""

ImportAlias(name, alias) == [name |-> name, alias |-> alias]

\* from <level dots><module> import <names>      (cst.ImportFrom)
FromStmt(level, module, names) ==
    [kind |-> "from", level |-> level, module |-> module, names |-> names,
     star |-> FALSE, name |-> "", body |-> {}, inner |-> <<>>]

\* from <module> import *
StarStmt(level, module) ==
    [kind |-> "from", level |-> level, module |-> module, names |-> <<>>,
     star |-> TRUE, name |-> "", body |-> {}, inner |-> <<>>]

\* import <dotted> [as alias]                    (cst.Import); an alias's
\* name is the dotted module
PlainStmt(names) ==
    [kind |-> "import", level |-> 0, module |-> <<>>, names |-> names,
     star |-> FALSE, name |-> "", body |-> {}, inner |-> <<>>]

\* a top-level definition: kind is "def", "class", "assign" or "annassign";
\* body holds the expressions of the node: <<n>> is the Name n and
\* <<o, a>> the Attribute o.a
DefStmt(kind, name, body) ==
    [kind |-> kind, level |-> 0, module |-> <<>>, names |-> <<>>,
     star |-> FALSE, name |-> name, body |-> body, inner |-> <<>>]

\* a definition inside a class or function: kind is "def", "class" or
\* "assign"
NestedDef(kind, name) == [kind |-> kind, name |-> name]

\* a class or function with definitions nested in it
WithInner(st, inner) == [st EXCEPT !.inner = inner]

IsImportStmt(st) == st.kind \in {"from", "import"}

IsDefStmt(st) == st.kind \in {"def", "class", "assign", "annassign"}

Module(doc, stmts) == [doc |-> doc, stmts |-> stmts]

\* a text libcst cannot parse: an opening parenthesis and nothing else
Unparsable == Module({"("}, <<>>)

\* cst.parse_module(source) returns; otherwise it raises ParserSyntaxError
Parses(source) == "(" \notin source.doc

\* the values of the Name nodes of an expression set
NamesOf(body) == UNION {Range(e) : e \in body}

\* the values of all Name nodes below a definition node (its own name is one)
NodeNames(st) ==
    {st.name} \cup NamesOf(st.body) \cup {d.name : d \in Range(st.inner)}

\* the words of a file's text: every maximal run of identifier characters
StmtTokens(st) ==
    IF st.kind = "from"
      THEN {"from", "import"} \cup Range(st.module)
           \cup {a.name : a \in Range(st.names)}
           \cup {a.alias : a \in {b \in Range(st.names) : b.alias # NoAlias}}
    ELSE IF st.kind = "import"
      THEN {"import"} \cup UNION {Range(a.name) : a \in Range(st.names)}
           \cup {a.alias : a \in {b \in Range(st.names) : b.alias # NoAlias}}
    ELSE (CASE st.kind = "def" -> {"def"}
            [] st.kind = "class" -> {"class"}
            [] OTHER -> {})
         \cup NodeNames(st)

TextTokens(m) == m.doc \cup UNION {StmtTokens(st) : st \in Range(m.stmts)}

\* `sym in source_content`
TextContains(m, sym) == \E t \in TextTokens(m) : IsSubstring(sym, t)

----------------------------------------------------------------------------
(* refactor.py *)

\* _make_dotted_name: the non-empty parts of a dotted string
RECURSIVE make_dotted_name(_)
make_dotted_name(name) ==
    IF name = <<>> THEN <<>>
    ELSE IF Head(name) = "" THEN make_dotted_name(Tail(name))
    ELSE <<Head(name)>> \o make_dotted_name(Tail(name))

\* RenameTransformer on one expression: every Name node, the attribute
\* names included
RenameExpr(e, old_name, new_name) ==
    [i \in DOMAIN e |-> IF e[i] = old_name THEN new_name ELSE e[i]]

\* the import aliases' `name` is skipped, their `asname` is a Name node
RenameAsNames(names, old_name, new_name) ==
    [i \in DOMAIN names |->
        IF names[i].alias = old_name
          THEN ImportAlias(names[i].name, new_name) ELSE names[i]]

\* the names of the nested definitions are Name nodes too
RenameInner(inner, old_name, new_name) ==
    [i \in DOMAIN inner |->
        IF inner[i].name = old_name THEN NestedDef(inner[i].kind, new_name)
        ELSE inner[i]]

RenameStmt(st, old_name, new_name) ==
    IF IsImportStmt(st)
      THEN [st EXCEPT !.names = RenameAsNames(st.names, old_name, new_name)]
      ELSE [st EXCEPT !.name = IF st.name = old_name THEN new_name ELSE st.name,
                      !.body = {RenameExpr(e, old_name, new_name) : e \in st.body},
                      !.inner = RenameInner(st.inner, old_name, new_name)]

\* RenameTransformer.changes_made on one statement
RenameCount(st, old_name) ==
    IF IsImportStmt(st)
      THEN Cardinality({i \in DOMAIN st.names : st.names[i].alias = old_name})
      ELSE (IF st.name = old_name THEN 1 ELSE 0)
           + Cardinality({i \in DOMAIN st.inner : st.inner[i].name = old_name})
           + Cardinality({<<e, i>> \in UNION {{<<x, j>> : j \in DOMAIN x} : x \in st.body} :
                             e[i] = old_name})

RenameTransformerNoAsName(st, old_name, new_name) ==
    IF IsImportStmt(st) THEN st
      ELSE [st EXCEPT !.name = IF st.name = old_name THEN new_name ELSE st.name,
                      !.body = {RenameExpr(e, old_name, new_name) : e \in st.body},
                      !.inner = RenameInner(st.inner, old_name, new_name)]

RenameTransformer(st, old_name, new_name) == RenameStmt(st, old_name, new_name)

rename_in_source(source, old_name, new_name) ==
    [src   |-> [source EXCEPT !.stmts =
                   [i \in DOMAIN source.stmts |->
                       RenameTransformer(source.stmts[i], old_name, new_name)]],
     count |-> Sum([i \in DOMAIN source.stmts |-> RenameCount(source.stmts[i], old_name)],
                   DOMAIN source.stmts)]

\* ImportRenameTransformer.leave_ImportFrom / leave_Import on one statement;
\* <<>> is the module None and "" the name None
ImportRenameStmt(st, old_module, new_module, old_name, new_name) ==
    IF st.kind = "from" THEN
        LET modHit  == old_module # <<>> /\ new_module # <<>> /\ st.module # <<>>
                       /\ st.module = old_module
            nameHit == IF old_name # "" /\ new_name # "" /\ ~st.star
                         THEN {i \in DOMAIN st.names : st.names[i].name = old_name}
                         ELSE {}
        IN [st |-> [st EXCEPT
                      !.module = IF modHit THEN make_dotted_name(new_module) ELSE @,
                      !.names  = [i \in DOMAIN st.names |->
                                     IF i \in nameHit
                                       THEN ImportAlias(new_name, st.names[i].alias)
                                       ELSE st.names[i]]],
            count |-> (IF modHit THEN 1 ELSE 0) + Cardinality(nameHit)]
    ELSE IF st.kind = "import" THEN
        LET hit == IF old_module # <<>> /\ new_module # <<>>
                     THEN {i \in DOMAIN st.names : st.names[i].name = old_module}
                     ELSE {}
        IN [st |-> [st EXCEPT !.names =
                      [i \in DOMAIN st.names |->
                          IF i \in hit
                            THEN ImportAlias(make_dotted_name(new_module), st.names[i].alias)
                            ELSE st.names[i]]],
            count |-> Cardinality(hit)]
    ELSE [st |-> st, count |-> 0]

\* a module path is rewritten only in the from-imports that list the name
ImportRenameOnlyListed(st, old_module, new_module, old_name, new_name) ==
    IF st.kind = "from" /\ old_name # ""
       /\ ~\E i \in DOMAIN st.names : st.names[i].name = old_name
      THEN [st |-> st, count |-> 0]
      ELSE ImportRenameStmt(st, old_module, new_module, old_name, new_name)

\* a renamed import alias is built anew and loses its `as` part
ImportRenameDropAlias(st, old_module, new_module, old_name, new_name) ==
    LET r == ImportRenameStmt(st, old_module, new_module, old_name, new_name)
    IN IF st.kind = "from" /\ old_name # "" /\ ~st.star
         THEN [r EXCEPT !.st.names =
                 [i \in DOMAIN st.names |->
                     IF st.names[i].name = old_name
                       THEN ImportAlias(new_name, NoAlias) ELSE st.names[i]]]
         ELSE r

ImportRenameTransformer(st, old_module, new_module, old_name, new_name) ==
    ImportRenameStmt(st, old_module, new_module, old_name, new_name)

update_imports_in_source(source, old_module, new_module, old_name, new_name) ==
    LET r == [i \in DOMAIN source.stmts |->
                 ImportRenameTransformer(source.stmts[i], old_module, new_module,
                                         old_name, new_name)]
    IN [src   |-> [source EXCEPT !.stmts = [i \in DOMAIN source.stmts |-> r[i].st]],
        count |-> Sum([i \in DOMAIN source.stmts |-> r[i].count], DOMAIN source.stmts)]

\* AttributeRenameTransformer.leave_Attribute on a dotted name: the
\* innermost Attribute is <first>.<second>
AttributeRenameDotted(d, module_name, old_name, new_name) ==
    IF Len(d) >= 2 /\ d[1] = module_name /\ d[2] = old_name
      THEN [d EXCEPT ![2] = new_name] ELSE d

AttributeRenameStmt(st, module_name, old_name, new_name) ==
    IF st.kind = "from"
      THEN [st EXCEPT !.module = AttributeRenameDotted(@, module_name, old_name, new_name)]
    ELSE IF st.kind = "import"
      THEN [st EXCEPT !.names =
              [i \in DOMAIN st.names |->
                  ImportAlias(AttributeRenameDotted(st.names[i].name, module_name,
                                                    old_name, new_name),
                              st.names[i].alias)]]
    ELSE [st EXCEPT !.body =
              {AttributeRenameDotted(e, module_name, old_name, new_name) : e \in st.body}]

AttributeRenameCount(st, module_name, old_name) ==
    LET Hit(d) == Len(d) >= 2 /\ d[1] = module_name /\ d[2] = old_name
    IN IF st.kind = "from" THEN (IF Hit(st.module) THEN 1 ELSE 0)
       ELSE IF st.kind = "import"
         THEN Cardinality({i \in DOMAIN st.names : Hit(st.names[i].name)})
       ELSE Cardinality({e \in st.body : Hit(e)})

rename_attribute_in_source(source, module_name, old_name, new_name) ==
    [src   |-> [source EXCEPT !.stmts =
                   [i \in DOMAIN source.stmts |->
                       AttributeRenameStmt(source.stmts[i], module_name, old_name, new_name)]],
     count |-> Sum([i \in DOMAIN source.stmts |->
                       AttributeRenameCount(source.stmts[i], module_name, old_name)],
                   DOMAIN source.stmts)]

\* DefinitionRemover: what it removes
DefinitionRemoverHits(st, symbol_name) ==
    st.kind \in {"def", "class", "assign"} /\ st.name = symbol_name

\* DefinitionRemover below a statement that stays: leave_ClassDef,
\* leave_FunctionDef and leave_SimpleStatementLine are called for the nodes
\* at every depth
DefinitionRemoverInner(st, symbol_name) ==
    [st EXCEPT !.inner = SelectSeq(st.inner, LAMBDA d : d.name # symbol_name)]

remove_definition(source, symbol_name) ==
    LET kept == SelectSeq(source.stmts,
                          LAMBDA st : ~DefinitionRemoverHits(st, symbol_name))
    IN [src     |-> [source EXCEPT !.stmts =
                        [i \in DOMAIN kept |-> DefinitionRemoverInner(kept[i], symbol_name)]],
        removed |-> \E i \in DOMAIN source.stmts :
                       \/ DefinitionRemoverHits(source.stmts[i], symbol_name)
                       \/ \E j \in DOMAIN source.stmts[i].inner :
                             source.stmts[i].inner[j].name = symbol_name]

\* the definition's statements are appended to the module body
add_definition(source, definition_code) ==
    [source EXCEPT !.stmts = Append(source.stmts, definition_code)]

\* where add_import and _add_plain_import insert: after the last import
InsertIdx(source) ==
    LET imps == {i \in DOMAIN source.stmts : IsImportStmt(source.stmts[i])}
    IN IF imps = {} THEN 0 ELSE CHOOSE i \in imps : \A j \in imps : j <= i

InsertAt(stmts, idx, st) ==
    SubSeq(stmts, 1, idx) \o <<st>> \o SubSeq(stmts, idx + 1, Len(stmts))

\* `module` is (level, dotted): the leading dots and the rest of the string
add_import(source, level, module, name, alias) ==
    [source EXCEPT !.stmts =
        InsertAt(source.stmts, InsertIdx(source),
                 FromStmt(level, make_dotted_name(module), <<ImportAlias(name, alias)>>))]

add_plain_import(source, module, alias) ==
    [source EXCEPT !.stmts =
        InsertAt(source.stmts, InsertIdx(source),
                 PlainStmt(<<ImportAlias(make_dotted_name(module), alias)>>))]

\* UsedNamesCollector: the Name nodes outside the import statements
UsedNamesCollector(source) ==
    UNION {NodeNames(st) : st \in {x \in Range(source.stmts) : IsDefStmt(x)}}

\* the name an import alias binds in the file
LocalName(st, a) ==
    IF a.alias # NoAlias THEN a.alias
    ELSE IF st.kind = "from" THEN a.name
    ELSE Head(a.name)

\* UnusedImportRemover on one import statement: the aliases it keeps
KeptAliases(st, used_names) ==
    SelectSeq(st.names, LAMBDA a : LocalName(st, a) \in used_names)

remove_unused_imports(source) ==
    LET used == UsedNamesCollector(source)
        Keep(st) == ~IsImportStmt(st) \/ st.star \/ KeptAliases(st, used) # <<>>
        Trim(st) == IF IsImportStmt(st) /\ ~st.star
                      THEN [st EXCEPT !.names = KeptAliases(st, used)] ELSE st
        kept == SelectSeq(source.stmts, Keep)
    IN [src     |-> [source EXCEPT !.stmts = [i \in DOMAIN kept |-> Trim(kept[i])]],
        removed |-> UNION {{LocalName(st, a) : a \in Range(st.names)} \ used :
                             st \in {x \in Range(source.stmts) :
                                        IsImportStmt(x) /\ ~x.star}}]

\* ImportedNamesCollector: the local names the file's imports bind
ImportedNamesCollector(source) ==
    UNION {{LocalName(st, a) : a \in Range(st.names)} :
             st \in {x \in Range(source.stmts) : IsImportStmt(x) /\ ~x.star}}

\* an entry of `imports`: (module, name, alias, is_from_import), module
\* being (level, dotted)
ImportEntry(level, module, name, alias, is_from) ==
    [level |-> level, module |-> module, name |-> name, alias |-> alias,
     is_from_import |-> is_from]

EntryLocalName(imp) ==
    IF imp.alias # NoAlias THEN imp.alias
    ELSE IF imp.is_from_import THEN imp.name
    ELSE Head(imp.module)

RECURSIVE AddImports(_, _)
AddImports(source, imports) ==
    IF imports = <<>> THEN source
    ELSE LET imp == Head(imports)
         IN AddImports(IF imp.is_from_import
                         THEN add_import(source, imp.level, imp.module, imp.name, imp.alias)
                         ELSE add_plain_import(source, imp.module, imp.alias),
                       Tail(imports))

\* every entry is added, whatever the file binds already
EnsureImportsNoFilter(source, imports) == AddImports(source, imports)

ensure_imports(source, imports) ==
    LET existing == ImportedNamesCollector(source)
        imports_to_add == SelectSeq(imports, LAMBDA imp : EntryLocalName(imp) \notin existing)
    IN AddImports(source, imports_to_add)

----------------------------------------------------------------------------
(* symbol_table.py: paths and modules *)

\* A path is the sequence of its components below the project root; the
\* last component of a file's path is its stem, the extension being .py.
Root == <<>>

InitStem == "__init__"

Parent(p) == Front(p)

Stem(p) == Last(p)

\* _path_to_module: the extension is stripped, a trailing __init__ dropped
path_to_module(file_path) ==
    IF file_path # <<>> /\ Last(file_path) = InitStem THEN Front(file_path) ELSE file_path

\* module_name.split(".")[-1]
LastComponent(module) == IF module = <<>> THEN "" ELSE Last(module)

\* a SymbolDefinition: its name and the scope stack it was emitted under
\* (its qualified name)
Definition(name, scope) == [name |-> name, scope |-> scope]

\* find_definition found nothing: None
NoDefinition == Definition("", <<>>)

\* the definitions one statement of the module body gives: visit_ClassDef
\* and visit_FunctionDef record at every depth, visit_Assign and
\* visit_AnnAssign at module level only
StmtDefinitions(st, kinds) ==
    IF st.kind \notin kinds THEN <<>>
    ELSE LET nested == SelectSeq(st.inner, LAMBDA d : d.kind \in {"def", "class"})
         IN <<Definition(st.name, <<>>)>>
            \o [i \in DOMAIN nested |-> Definition(nested[i].name, <<st.name>>)]

RECURSIVE CollectDefinitions(_, _)
CollectDefinitions(stmts, kinds) ==
    IF stmts = <<>> THEN <<>>
    ELSE StmtDefinitions(Head(stmts), kinds) \o CollectDefinitions(Tail(stmts), kinds)

\* only functions and classes are collected
SymbolCollectorNoAssign(source) ==
    [definitions |-> CollectDefinitions(source.stmts, {"def", "class"}),
     imports     |-> SelectSeq(source.stmts, IsImportStmt)]

\* SymbolCollector: the definitions of a file in source order, and its
\* import statements
SymbolCollector(source) ==
    [definitions |-> CollectDefinitions(source.stmts,
                                        {"def", "class", "assign", "annassign"}),
     imports     |-> SelectSeq(source.stmts, IsImportStmt)]

\* SymbolTable.build: the symbols of every Python file of the project
SymbolTable(files) ==
    [p \in {q \in DOMAIN files : Parses(files[q].content)} |->
        SymbolCollector(files[p].content)]

\* SymbolTable.find_definition: the first definition `name` of the file's
\* list, or None
find_definition(table, file_path, name) ==
    IF file_path \notin DOMAIN table THEN NoDefinition
    ELSE LET defs == table[file_path].definitions
             hits == {i \in DOMAIN defs : defs[i].name = name}
         IN IF hits = {} THEN NoDefinition
            ELSE defs[CHOOSE i \in hits : \A j \in hits : i <= j]

\* SymbolTable.find_all_definitions_by_name: every definition of the name
\* in the project, as (file, position in the file's list)
find_all_definitions_by_name(table, name) ==
    {<<p, i>> \in UNION {{<<q, j>> : j \in DOMAIN table[q].definitions} : q \in DOMAIN table} :
        table[p].definitions[i].name = name}

----------------------------------------------------------------------------
(* dependencies.py *)

\* ImportCollector: local name -> ImportDependency; a later import of the
\* same local name replaces an earlier one
ImportCollector(source) ==
    LET imps == {i \in DOMAIN source.stmts :
                    IsImportStmt(source.stmts[i]) /\ ~source.stmts[i].star}
        Binds(i, n) == \E a \in Range(source.stmts[i].names) :
                          LocalName(source.stmts[i], a) = n
        locals == {n \in ImportedNamesCollector(source) : TRUE}
        LastOf(n) == CHOOSE i \in imps : Binds(i, n) /\ \A j \in imps : Binds(j, n) => j <= i
        AliasOf(i, n) ==
            LET st == source.stmts[i]
                k  == CHOOSE x \in DOMAIN st.names :
                         LocalName(st, st.names[x]) = n
                         /\ \A y \in DOMAIN st.names :
                               LocalName(st, st.names[y]) = n => y <= x
            IN st.names[k]
    IN [n \in locals |->
          LET st == source.stmts[LastOf(n)]
              a  == AliasOf(LastOf(n), n)
          IN IF st.kind = "from"
               THEN ImportEntry(st.level, st.module, a.name, a.alias, TRUE)
               ELSE ImportEntry(0, a.name, "", a.alias, FALSE)]

\* DefinitionCollector: name -> node of the top-level definitions; a later
\* definition of the same name replaces an earlier one
DefinitionCollector(source) ==
    LET defs == {i \in DOMAIN source.stmts : IsDefStmt(source.stmts[i])}
        names == {source.stmts[i].name : i \in defs}
    IN [n \in names |->
          source.stmts[CHOOSE i \in defs :
                          source.stmts[i].name = n
                          /\ \A j \in defs : source.stmts[j].name = n => j <= i]]

\* DependencyAnalyzer._ensure_parsed
DependencyAnalyzer(source) ==
    [imports |-> ImportCollector(source), definitions |-> DefinitionCollector(source)]

\* _get_names_used_by_node
get_names_used_by_node(node) == NodeNames(node)

\* analyze_symbol, for a symbol the file defines
analyze_required_imports(a, symbol_name) ==
    {a.imports[n] : n \in (get_names_used_by_node(a.definitions[symbol_name])
                            \ {symbol_name}) \cap DOMAIN a.imports}

analyze_internal_dependencies(a, symbol_name) ==
    {n \in get_names_used_by_node(a.definitions[symbol_name]) \ {symbol_name} :
        n \notin DOMAIN a.imports /\ n \in DOMAIN a.definitions}

\* the users are looked up among the names the definition itself uses
UsagesReversed(a, symbol_name) ==
    {o \in DOMAIN a.definitions \ {symbol_name} :
        o \in get_names_used_by_node(a.definitions[symbol_name])}

analyze_internal_usages(a, symbol_name) ==
    {o \in DOMAIN a.definitions \ {symbol_name} :
        symbol_name \in get_names_used_by_node(a.definitions[o])}

get_symbol_code(a, symbol_name) == a.definitions[symbol_name]

\* the key of the dict required_imports: (imp.module, imp.name); a plain
\* import's name is its module
ImportKey(imp) ==
    <<imp.level, imp.module, IF imp.is_from_import THEN <<imp.name>> ELSE imp.module>>

\* the analyzer of the file the operation in progress works on
Analyzer == DependencyAnalyzer(fs0[call.file].content)

\* move_set = set(symbols_to_move)
InitMoveSetEmpty(symbols_to_move) == {}

InitMoveSet(symbols_to_move) == symbols_to_move

NoClosure ==
    [move_set |-> {}, shared_deps |-> {}, required_imports |-> <<>>,
     changed |-> FALSE, todo |-> {}, deps |-> {}]

\* resolve_move_dependencies up to the first pass of the while loop
ClosureStart(symbols_to_move) ==
    [move_set |-> InitMoveSet(symbols_to_move), shared_deps |-> {},
     required_imports |-> <<>>, changed |-> FALSE,
     todo |-> InitMoveSet(symbols_to_move), deps |-> {}]

\* for symbol in list(move_set): deps = analyzer.analyze_symbol(symbol) and
\* the loop over deps.required_imports.  The list is in the set's
\* iteration order, which is not fixed.
ClosureVisitSymbol ==
    /\ pc = "cl_loop"
    /\ cl.todo # {}
    /\ \E symbol \in cl.todo :
         IF ~Parses(fs0[call.file].content)
           THEN \* _ensure_parsed: ParserSyntaxError
                /\ pc' = "done"
                /\ result' = [kind |-> IF call.op = "move_symbol"
                                         THEN "RefactoringError" ELSE "ParserSyntaxError",
                              payload |-> {}]
                /\ cl' = cl
         ELSE IF symbol \notin DOMAIN Analyzer.definitions
           THEN \* ValueError
                /\ pc' = "done"
                /\ result' = [kind |-> IF call.op = "move_symbol"
                                         THEN "RefactoringError" ELSE "ValueError",
                              payload |-> {symbol}]
                /\ cl' = cl
           ELSE LET req == analyze_required_imports(Analyzer, symbol)
                    have == {ImportKey(cl.required_imports[i]) :
                               i \in DOMAIN cl.required_imports}
                IN \E order \in Perms(req) :
                     LET Fresh(i) == ImportKey(order[i]) \notin have
                                     /\ \A j \in 1..(i - 1) :
                                           ImportKey(order[j]) # ImportKey(order[i])
                         added == SelectSeq([i \in DOMAIN order |-> <<i, order[i]>>],
                                            LAMBDA x : Fresh(x[1]))
                     IN /\ cl' = [cl EXCEPT
                                    !.todo = @ \ {symbol},
                                    !.deps = analyze_internal_dependencies(Analyzer, symbol),
                                    !.required_imports =
                                        @ \o [i \in DOMAIN added |-> added[i][2]]]
                        /\ pc' = IF analyze_internal_dependencies(Analyzer, symbol) = {}
                                   THEN "cl_loop" ELSE "cl_deps"
                        /\ result' = result
    /\ UNCHANGED <<fs, dirs, call, mv, changes, fs0, dirs0, calls, prev>>

\* a dependency with remaining users is shared whatever the policy
ClosureDepStepShares(c, internal_dep, include_shared_deps) ==
    IF internal_dep \in c.move_set THEN c
    ELSE IF analyze_internal_usages(Analyzer, internal_dep) \ c.move_set = {}
      THEN [c EXCEPT !.move_set = @ \cup {internal_dep}, !.changed = TRUE]
    ELSE [c EXCEPT !.shared_deps = @ \cup {internal_dep}]

\* the branch taken for one internal dependency
ClosureDepStep(c, internal_dep, include_shared_deps) ==
    IF internal_dep \in c.move_set THEN c
    ELSE LET remaining_users ==
                 analyze_internal_usages(Analyzer, internal_dep) \ c.move_set
         IN IF remaining_users = {}
              THEN [c EXCEPT !.move_set = @ \cup {internal_dep}, !.changed = TRUE]
            ELSE IF include_shared_deps
              THEN [c EXCEPT !.move_set = @ \cup {internal_dep}, !.changed = TRUE]
            ELSE [c EXCEPT !.shared_deps = @ \cup {internal_dep}]

\* for internal_dep in deps.internal_dependencies: one iteration; after
\* the last one the for loop over the symbols goes on
ClosureVisitDep ==
    /\ pc = "cl_deps"
    /\ cl.deps # {}
    /\ \E internal_dep \in cl.deps :
         /\ cl' = [ClosureDepStep(cl, internal_dep, call.include_deps)
                     EXCEPT !.deps = cl.deps \ {internal_dep}]
         /\ pc' = IF cl.deps = {internal_dep} THEN "cl_loop" ELSE "cl_deps"
    /\ UNCHANGED <<fs, dirs, call, mv, changes, result, fs0, dirs0, calls, prev>>

\* the flag is not cleared at the start of a pass
ClosureNextPassKeepsFlag ==
    /\ pc = "cl_loop"
    /\ cl.todo = {}
    /\ cl.changed
    /\ cl' = [cl EXCEPT !.todo = cl.move_set]
    /\ UNCHANGED <<fs, dirs, call, pc, mv, changes, result, fs0, dirs0, calls, prev>>

\* the for loop is over and something was added: while changed
ClosureNextPass ==
    /\ pc = "cl_loop"
    /\ cl.todo = {}
    /\ cl.changed
    /\ cl' = [cl EXCEPT !.changed = FALSE, !.todo = cl.move_set]
    /\ UNCHANGED <<fs, dirs, call, pc, mv, changes, result, fs0, dirs0, calls, prev>>

\* return list(move_set), list(shared_deps), list(required_imports.values())
ClosureReturn ==
    /\ pc = "cl_loop"
    /\ cl.todo = {}
    /\ ~cl.changed
    /\ call.op = "resolve_move_dependencies"
    /\ pc' = "done"
    /\ result' = [kind |-> "ok", payload |-> {}]
    /\ UNCHANGED <<fs, dirs, call, cl, mv, changes, fs0, dirs0, calls, prev>>

----------------------------------------------------------------------------
(* The operations' frame *)

NoPath == <<"">>

NoCall ==
    [op |-> "none", file |-> NoPath, symbols |-> {}, dest |-> NoPath,
     dry_run |-> FALSE, include_deps |-> FALSE, shared_file |-> NoPath,
     new_name |-> "", target |-> <<>>]

NoResult == [kind |-> "none", payload |-> {}]

NoMove == [shared_file |-> NoPath, moved_symbols |-> <<>>, planned |-> FALSE]

NoPrev == [call |-> NoCall, fs |-> <<>>, result |-> NoResult]

\* a stored file: the text as read_text returns it, and the line ending
\* the bytes on disk use
File(content, eol) == [content |-> content, eol |-> eol]

\* the state before an operation is called on the project `files`, `d`
InitProject(files, d) ==
    /\ fs = files
    /\ dirs = d
    /\ call = NoCall
    /\ pc = "idle"
    /\ cl = NoClosure
    /\ mv = NoMove
    /\ changes = <<>>
    /\ result = NoResult
    /\ fs0 = files
    /\ dirs0 = d
    /\ calls = 0
    /\ prev = NoPrev

----------------------------------------------------------------------------
(* core.py: the filesystem *)

\* the line ending write_text produces on the platform
NativeEol == "LF"

\* Path.read_text: the text, with universal newlines
ReadText(files, path) == files[path].content

\* Path.write_text: the text in the platform's line ending; the file is
\* created when it does not exist
WriteText(files, path, content) ==
    [p \in DOMAIN files \cup {path} |->
        IF p = path THEN File(content, NativeEol) ELSE files[p]]

Exists(files, path) == path \in DOMAIN files

\* mkdir(parents=True, exist_ok=True)
RECURSIVE Ancestors(_)
Ancestors(d) == IF d = Root THEN {Root} ELSE {d} \cup Ancestors(Parent(d))

Mkdir(d, directory) == d \cup Ancestors(directory)

\* the text written into a new package marker and into a new module
PackageInit == Module({"Package"}, <<>>)

ModuleHeader(stem) == Module({stem, "module"}, <<>>)

\* _ensure_package_init_files: a marker in every directory from
\* `directory` up to, not including, the project root; existing markers
\* are kept
RECURSIVE ensure_package_init_files(_, _)
ensure_package_init_files(files, directory) ==
    IF directory = Root THEN files
    ELSE LET init_file == directory \o <<InitStem>>
             written == IF Exists(files, init_file) THEN files
                        ELSE WriteText(files, init_file, PackageInit)
         IN ensure_package_init_files(written, Parent(directory))

\* _get_python_files
get_python_files(files) == DOMAIN files

\* changes[path] = content on a dict kept as a sequence of <<path, content>>
DictSet(d, path, content) ==
    IF \E i \in DOMAIN d : d[i][1] = path
      THEN [i \in DOMAIN d |-> IF d[i][1] = path THEN <<path, content>> ELSE d[i]]
      ELSE Append(d, <<path, content>>)

DictKeys(d) == {d[i][1] : i \in DOMAIN d}

DictGet(d, path) == d[CHOOSE i \in DOMAIN d : d[i][1] = path][2]

----------------------------------------------------------------------------
(* core.py: move_symbol *)

\* source_file.parent / f"{source_file.stem}_common.py"
DefaultShared(source_file) == Parent(source_file) \o <<Stem(source_file) \o "_common">>

\* lines 290-299: the shared file the operation uses
ResolveSharedFile(shared_deps, include_deps, shared_file, source_file) ==
    IF shared_deps # {} /\ ~include_deps /\ shared_file = NoPath
      THEN DefaultShared(source_file) ELSE shared_file

\* lines 306-310 and 316-319: a file that is absent is created with its
\* directories and their package markers
CreateIfAbsent(st, path) ==
    IF Exists(st.files, path) THEN st
    ELSE [files |-> WriteText(ensure_package_init_files(st.files, Parent(path)),
                              path, ModuleHeader(Stem(path))),
          dirs  |-> Mkdir(st.dirs, Parent(path))]

\* the destination and shared files are created only when the changes
\* are applied
PrepareNothing(files, d, dest_file, shared_file, shared_deps) ==
    [files |-> files, dirs |-> d]

PrepareFiles(files, d, dest_file, shared_file, shared_deps) ==
    LET a == CreateIfAbsent([files |-> files, dirs |-> d], dest_file)
    IN IF shared_file # NoPath /\ shared_deps # {}
         THEN CreateIfAbsent(a, shared_file) ELSE a

\* move_symbol up to resolve_move_dependencies (lines 278-288)
CallMoveSymbol(source_file, symbols, dest, dry_run, include_deps, shared_file) ==
    /\ pc = "idle"
    /\ call' = [NoCall EXCEPT !.op = "move_symbol", !.file = source_file,
                              !.symbols = symbols, !.dest = dest,
                              !.dry_run = dry_run, !.include_deps = include_deps,
                              !.shared_file = shared_file]
    /\ fs0' = fs
    /\ dirs0' = dirs
    /\ calls' = calls + 1
    /\ prev' = prev
    /\ mv' = NoMove
    /\ changes' = <<>>
    /\ IF ~Exists(fs, source_file)
         THEN /\ pc' = "done"
              /\ result' = [kind |-> "RefactoringError", payload |-> {}]
              /\ cl' = NoClosure
         ELSE /\ pc' = "cl_loop"
              /\ result' = NoResult
              /\ cl' = ClosureStart(symbols)
    /\ UNCHANGED <<fs, dirs>>

\* lines 290-320: the closure has returned; the shared-dependency policy,
\* then the destination and the shared file are created
MovePrepare ==
    /\ pc = "cl_loop"
    /\ cl.todo = {}
    /\ ~cl.changed
    /\ call.op = "move_symbol"
    /\ LET shared_file == ResolveSharedFile(cl.shared_deps, call.include_deps,
                                            call.shared_file, call.file)
           made == PrepareFiles(fs, dirs, call.dest, shared_file, cl.shared_deps)
       IN /\ fs' = made.files
          /\ dirs' = made.dirs
          /\ mv' = [mv EXCEPT !.shared_file = shared_file]
    /\ pc' = "mv_plan"
    /\ UNCHANGED <<call, cl, changes, result, fs0, dirs0, calls, prev>>

\* lines 326-343: the shared dependencies go to the shared file
RECURSIVE MoveShared(_, _, _)
MoveShared(shared_content, source_content, shared_list) ==
    IF shared_list = <<>>
      THEN [shared |-> shared_content, source |-> source_content]
      ELSE MoveShared(add_definition(shared_content,
                                     get_symbol_code(Analyzer, Head(shared_list))),
                      remove_definition(source_content, Head(shared_list)).src,
                      Tail(shared_list))

\* lines 349-359: the symbols of the move list go to the destination
RECURSIVE MoveMain(_, _, _, _)
MoveMain(dest_content, source_content, moved_symbols, move_list) ==
    IF move_list = <<>>
      THEN [dest |-> dest_content, source |-> source_content, moved |-> moved_symbols]
      ELSE LET r == remove_definition(source_content, Head(move_list))
           IN MoveMain(add_definition(dest_content,
                                      get_symbol_code(Analyzer, Head(move_list))),
                       r.src,
                       IF r.removed THEN Append(moved_symbols, Head(move_list))
                                    ELSE moved_symbols,
                       Tail(move_list))

\* (module, sym, None, True) for every sym of the list
ImportsFrom(module, syms) ==
    [i \in DOMAIN syms |-> ImportEntry(0, module, syms[i], NoAlias, TRUE)]

\* lines 416-438: the imports of one other file
RECURSIVE UpdateOther(_, _, _, _, _)
UpdateOther(content, count, old_module, new_module, syms) ==
    IF syms = <<>> THEN [src |-> content, count |-> count]
    ELSE LET r == update_imports_in_source(content, old_module, new_module,
                                           Head(syms), Head(syms))
         IN UpdateOther(r.src, count + r.count, old_module, new_module, Tail(syms))

\* lines 322-403: the entries of `changes` for the shared, destination and
\* source files, for one order of the lists
PlanOwn(files, move_list, shared_list, shared_required) ==
    LET source_file == call.file
        dest_file   == call.dest
        extract     == mv.shared_file # NoPath /\ cl.shared_deps # {}
        sh == IF extract
                THEN MoveShared(ReadText(files, mv.shared_file),
                                ReadText(files, source_file), shared_list)
                ELSE [shared |-> Module({}, <<>>), source |-> ReadText(files, source_file)]
        shared_content == IF shared_required # <<>>
                            THEN ensure_imports(sh.shared, shared_required)
                            ELSE sh.shared
        changes1 == IF extract THEN DictSet(<<>>, mv.shared_file, shared_content) ELSE <<>>
        mm == MoveMain(ReadText(files, dest_file), sh.source, <<>>, move_list)
        shared_module == path_to_module(mv.shared_file)
        imports_to_add == cl.required_imports
                          \o (IF extract THEN ImportsFrom(shared_module, shared_list)
                                         ELSE <<>>)
        dest_content == IF imports_to_add # <<>>
                          THEN ensure_imports(mm.dest, imports_to_add) ELSE mm.dest
        changes2 == DictSet(changes1, dest_file, dest_content)
        source1 == remove_unused_imports(mm.source).src
        dest_module == path_to_module(dest_file)
        source_needs_imports ==
            ImportsFrom(dest_module, SelectSeq(mm.moved, LAMBDA x : TextContains(source1, x)))
            \o (IF extract
                  THEN ImportsFrom(shared_module,
                                   SelectSeq(shared_list, LAMBDA x : TextContains(source1, x)))
                  ELSE <<>>)
        source_content == IF source_needs_imports # <<>>
                            THEN ensure_imports(source1, source_needs_imports) ELSE source1
    IN [changes |-> DictSet(changes2, source_file, source_content),
        moved   |-> mm.moved]

\* lines 412-441: the new text of one other file, and whether it is kept
PlanOther(files, py_file, moved_symbols, shared_list) ==
    LET extract == mv.shared_file # NoPath /\ cl.shared_deps # {}
        original == ReadText(files, py_file)
        a == UpdateOther(original, 0, path_to_module(call.file),
                         path_to_module(call.dest), moved_symbols)
        b == IF extract
               THEN UpdateOther(a.src, a.count, path_to_module(call.file),
                                path_to_module(mv.shared_file), shared_list)
               ELSE a
    IN [src |-> b.src, changed |-> b.count > 0 /\ b.src # original]

\* the required imports of the shared symbols, in every order the
\* iteration of the sets can take
RECURSIVE SharedRequired(_)
SharedRequired(shared_list) ==
    IF shared_list = <<>> THEN {<<>>}
    ELSE {p \o rest : p \in Perms(analyze_required_imports(Analyzer, Head(shared_list))),
                      rest \in SharedRequired(Tail(shared_list))}

\* lines 322-444: all the edits are computed; a dry run returns the diffs.
\* final_move_list, shared_deps and the walk of the project come in no
\* fixed order.
MovePlan ==
    /\ pc = "mv_plan"
    /\ \E move_list \in Perms(cl.move_set), shared_list \in Perms(cl.shared_deps) :
         \E shared_required \in SharedRequired(shared_list) :
           LET own == PlanOwn(fs, move_list, shared_list, shared_required)
               touched == {f \in get_python_files(fs) \ DictKeys(own.changes) :
                             PlanOther(fs, f, own.moved, shared_list).changed}
           IN \E walk \in Perms(touched) :
                LET all == own.changes
                           \o [i \in DOMAIN walk |->
                                 <<walk[i], PlanOther(fs, walk[i], own.moved, shared_list).src>>]
                IN /\ changes' = all
                   /\ mv' = [mv EXCEPT !.moved_symbols = own.moved, !.planned = TRUE]
    /\ IF call.dry_run
         THEN pc' = "done" /\ result' = [kind |-> "ok", payload |-> {}]
         ELSE pc' = "mv_write" /\ result' = result
    /\ UNCHANGED <<fs, dirs, call, cl, fs0, dirs0, calls, prev>>

\* for path, content in changes.items(): path.write_text(content)
RECURSIVE ApplyChanges(_, _)
ApplyChanges(files, d) ==
    IF d = <<>> THEN files
    ELSE ApplyChanges(WriteText(files, Head(d)[1], Head(d)[2]), Tail(d))

\* the changes stay in memory
ApplyNothing(files, d) == files

WriteChanges(files, d) == ApplyChanges(files, d)

\* lines 446-450: the changes are written and the changed paths returned
MoveApply ==
    /\ pc = "mv_write"
    /\ fs' = WriteChanges(fs, changes)
    /\ pc' = "done"
    /\ result' = [kind |-> "ok", payload |-> {}]
    /\ UNCHANGED <<dirs, call, cl, mv, changes, fs0, dirs0, calls, prev>>

----------------------------------------------------------------------------
(* core.py: rename_symbol *)

\* lines 220-226: the file has a from-import that lists the name, or a
\* star import
ImportsSymbol(file_symbols, old_name) ==
    \E i \in DOMAIN file_symbols.imports :
        LET imp == file_symbols.imports[i]
        IN imp.kind = "from"
           /\ (imp.star \/ \E a \in Range(imp.names) : a.name = old_name)

\* lines 138-174: the target is resolved and the symbol table consulted
CallRenameSymbol(file_path, old_name, new_name, dry_run) ==
    /\ pc \in {"idle", "done"}
    /\ calls < MaxCalls
    /\ call' = [NoCall EXCEPT !.op = "rename_symbol", !.file = file_path,
                              !.symbols = {old_name}, !.new_name = new_name,
                              !.dry_run = dry_run]
    /\ prev' = [call |-> call, fs |-> fs0, result |-> result]
    /\ fs0' = fs
    /\ dirs0' = dirs
    /\ calls' = calls + 1
    /\ changes' = <<>>
    /\ LET symbol_table == SymbolTable(fs)
           all_definitions == find_all_definitions_by_name(symbol_table, old_name)
           same_file_defs == {d \in all_definitions : d[1] = file_path}
       IN IF ~Exists(fs, file_path)
            THEN pc' = "done" /\ result' = [kind |-> "RefactoringError", payload |-> {}]
          ELSE IF find_definition(symbol_table, file_path, old_name) = NoDefinition
            THEN pc' = "done" /\ result' = [kind |-> "SymbolNotFoundError", payload |-> {}]
          ELSE IF Cardinality(same_file_defs) > 1
            THEN pc' = "done"
                 /\ result' = [kind |-> "AmbiguousSymbolError", payload |-> same_file_defs]
          ELSE pc' = "rn_plan" /\ result' = NoResult
    /\ UNCHANGED <<fs, dirs, cl, mv>>

\* lines 191-194: the defining file
RenameOwn(files, file_path, old_name, new_name) ==
    LET r == rename_in_source(ReadText(files, file_path), old_name, new_name)
    IN IF r.count > 0 THEN DictSet(<<>>, file_path, r.src) ELSE <<>>

\* lines 200-233: the new text of one other file, and whether it is kept
RenameOther(files, py_file, file_path, old_name, new_name) ==
    LET source == ReadText(files, py_file)
        module_name == path_to_module(file_path)
        a == update_imports_in_source(source, <<>>, <<>>, old_name, new_name)
        b == rename_attribute_in_source(a.src, LastComponent(module_name),
                                        old_name, new_name)
        c == IF py_file \in DOMAIN SymbolTable(files)
                /\ ImportsSymbol(SymbolTable(files)[py_file], old_name)
               THEN rename_in_source(b.src, old_name, new_name)
               ELSE [src |-> b.src, count |-> 0]
    IN [src |-> c.src,
        changed |-> a.count + b.count + c.count > 0 /\ c.src # source]

\* lines 186-236: the edits are computed; a dry run returns the diffs.  The
\* walk of the project comes in no fixed order.
RenamePlan ==
    /\ pc = "rn_plan"
    /\ LET old_name == CHOOSE n \in call.symbols : TRUE
           touched == {f \in get_python_files(fs) \ {call.file} :
                         RenameOther(fs, f, call.file, old_name, call.new_name).changed}
       IN \E walk \in Perms(touched) :
            changes' = RenameOwn(fs, call.file, old_name, call.new_name)
                       \o [i \in DOMAIN walk |->
                             <<walk[i], RenameOther(fs, walk[i], call.file, old_name,
                                                    call.new_name).src>>]
    /\ IF call.dry_run
         THEN pc' = "done" /\ result' = [kind |-> "ok", payload |-> {}]
         ELSE pc' = "rn_write" /\ result' = result
    /\ UNCHANGED <<fs, dirs, call, cl, mv, fs0, dirs0, calls, prev>>

\* lines 238-242: the changes are written and the changed paths returned
RenameApply ==
    /\ pc = "rn_write"
    /\ fs' = WriteChanges(fs, changes)
    /\ pc' = "done"
    /\ result' = [kind |-> "ok", payload |-> {}]
    /\ UNCHANGED <<dirs, call, cl, mv, changes, fs0, dirs0, calls, prev>>

----------------------------------------------------------------------------
(* core.py: rename_file and move_file *)

\* old_file.parent / f"{new_name}.py", with the wrong parent
NewFileInRoot(old_file, new_name) == <<new_name>>

\* rename_file line 483: new_file = old_file.parent / f"{new_name}.py"
RenamedFile(old_file, new_name) == Parent(old_file) \o <<new_name>>

\* move_file line 574: new_file = dest_dir / old_file.name
MovedFile(old_file, dest_dir) == dest_dir \o <<Stem(old_file)>>

\* the file the operation in progress produces
NewFile ==
    IF call.op = "rename_file" THEN RenamedFile(call.file, call.new_name)
    ELSE MovedFile(call.file, call.dest)

\* move_file lines 567-571: the destination directory is created with its
\* package markers when it does not exist
PrepareDir(files, d, dest_dir) ==
    IF dest_dir \in d THEN [files |-> files, dirs |-> d]
    ELSE [files |-> ensure_package_init_files(files, dest_dir),
          dirs  |-> Mkdir(d, dest_dir)]

\* shutil.move(str(old_file), str(new_file)): the bytes go to the new
\* path, replacing a file that is there
ShutilMove(files, old_file, new_file) ==
    [p \in (DOMAIN files \ {old_file}) \cup {new_file} |->
        IF p = new_file THEN files[old_file] ELSE files[p]]

\* rename_file lines 477-479 and move_file lines 561-571
CallFileOp(op, file_path, new_name, destination_dir, dry_run) ==
    /\ pc = "idle"
    /\ call' = [NoCall EXCEPT !.op = op, !.file = file_path, !.new_name = new_name,
                              !.dest = destination_dir, !.dry_run = dry_run]
    /\ prev' = [call |-> call, fs |-> fs0, result |-> result]
    /\ fs0' = fs
    /\ dirs0' = dirs
    /\ calls' = calls + 1
    /\ changes' = <<>>
    /\ IF ~Exists(fs, file_path)
         THEN /\ pc' = "done"
              /\ result' = [kind |-> "RefactoringError", payload |-> {}]
              /\ UNCHANGED <<fs, dirs>>
         ELSE /\ pc' = "fl_plan"
              /\ result' = NoResult
              /\ IF op = "move_file"
                   THEN LET made == PrepareDir(fs, dirs, destination_dir)
                        IN fs' = made.files /\ dirs' = made.dirs
                   ELSE UNCHANGED <<fs, dirs>>
    /\ UNCHANGED <<cl, mv>>

\* rename_file lines 492-515 and move_file lines 584-606: the new text of
\* one other file, and whether it is kept
FileOther(files, py_file, old_file, new_file, new_basename) ==
    LET content == ReadText(files, py_file)
        a == update_imports_in_source(content, path_to_module(old_file),
                                      path_to_module(new_file), "", "")
        b == update_imports_in_source(a.src, <<Stem(old_file)>>, new_basename, "", "")
    IN [src |-> b.src, changed |-> a.count + b.count > 0 /\ b.src # content]

\* the module the basename of the old file is replaced by: the new
\* basename in rename_file (line 510), the full new module in move_file
\* (line 602)
NewBasename ==
    IF call.op = "rename_file" THEN <<call.new_name>> ELSE path_to_module(NewFile)

\* rename_file lines 489-522 and move_file lines 581-613: the edits are
\* computed; a dry run returns the diffs
FilePlan ==
    /\ pc = "fl_plan"
    /\ LET touched == {f \in get_python_files(fs) \ {call.file} :
                         FileOther(fs, f, call.file, NewFile, NewBasename).changed}
       IN \E walk \in Perms(touched) :
            changes' = [i \in DOMAIN walk |->
                          <<walk[i], FileOther(fs, walk[i], call.file, NewFile,
                                               NewBasename).src>>]
    /\ IF call.dry_run
         THEN pc' = "done" /\ result' = [kind |-> "ok", payload |-> {}]
         ELSE pc' = "fl_write" /\ result' = result
    /\ UNCHANGED <<fs, dirs, call, cl, mv, fs0, dirs0, calls, prev>>

\* rename_file lines 524-526 and move_file lines 615-617
FileWrite ==
    /\ pc = "fl_write"
    /\ fs' = WriteChanges(fs, changes)
    /\ pc' = "fl_move"
    /\ UNCHANGED <<dirs, call, cl, mv, changes, result, fs0, dirs0, calls, prev>>

\* rename_file lines 528-533 and move_file lines 619-624
FileMove ==
    /\ pc = "fl_move"
    /\ fs' = ShutilMove(fs, call.file, NewFile)
    /\ pc' = "done"
    /\ result' = [kind |-> "ok", payload |-> {NewFile}]
    /\ UNCHANGED <<dirs, call, cl, mv, changes, fs0, dirs0, calls, prev>>

----------------------------------------------------------------------------
(* Generated source files *)

ClosureDefs == <<"g", "h", "k">>

ClosureExprs == {<<"g">>, <<"h">>, <<"k">>, <<"y">>}

\* utils.py: `from m import y` and the functions g, h and k, with at most
\* `uses` Name nodes in their bodies
GraphSourcesUpTo(uses) ==
    {Module({"utils"},
            <<FromStmt(0, <<"m">>, <<ImportAlias("y", NoAlias)>>)>>
            \o [i \in DOMAIN ClosureDefs |-> DefStmt("def", ClosureDefs[i], b[i])]) :
       b \in {bb \in [DOMAIN ClosureDefs -> SUBSET ClosureExprs] :
                 Sum([i \in DOMAIN ClosureDefs |-> Cardinality(bb[i])],
                     DOMAIN ClosureDefs) <= uses}}

GraphSources == GraphSourcesUpTo(MaxUses)

----------------------------------------------------------------------------
(* resolve_move_dependencies on its own *)

\* the seeds: lists of names of the file, and one name it does not define
ClosureSeeds == (SUBSET Range(ClosureDefs) \ {{}}) \cup {{"q"}}

InitClosure ==
    \E src \in GraphSources :
        InitProject([p \in {<<"utils">>} |-> File(src, "LF")], {Root})

\* resolve_move_dependencies(file_path, symbols_to_move, include_shared_deps)
CallResolve ==
    /\ pc = "idle"
    /\ \E seed \in ClosureSeeds, include \in BOOLEAN :
         /\ call' = [NoCall EXCEPT !.op = "resolve_move_dependencies",
                                   !.file = <<"utils">>, !.symbols = seed,
                                   !.include_deps = include]
         /\ cl' = ClosureStart(seed)
    /\ pc' = "cl_loop"
    /\ fs0' = fs
    /\ dirs0' = dirs
    /\ calls' = calls + 1
    /\ prev' = prev
    /\ UNCHANGED <<fs, dirs, mv, changes, result>>

NextClosure ==
    \/ CallResolve
    \/ ClosureVisitSymbol
    \/ ClosureVisitDep
    \/ ClosureNextPass
    \/ ClosureReturn

SpecClosure == InitClosure /\ [][NextClosure]_vars

\* resolve_move_dependencies is called again with the arguments of the
\* call that returned; `prev` keeps what that call returned
CallResolveAgain ==
    /\ pc = "done"
    /\ call.op = "resolve_move_dependencies"
    /\ result.kind = "ok"
    /\ calls < MaxCalls
    /\ prev' = [call |-> call, fs |-> fs0,
                result |-> [kind |-> "ok",
                            payload |-> {<<cl.move_set, cl.shared_deps>>}]]
    /\ cl' = ClosureStart(call.symbols)
    /\ pc' = "cl_loop"
    /\ result' = NoResult
    /\ calls' = calls + 1
    /\ UNCHANGED <<fs, dirs, call, mv, changes, fs0, dirs0>>

NextClosureTwice ==
    \/ NextClosure
    \/ CallResolveAgain

SpecClosureTwice == InitClosure /\ [][NextClosureTwice]_vars

\* the source files with one Name node fewer
InitFairClosure ==
    \E src \in GraphSourcesUpTo(MaxUses - 1) :
        InitProject([p \in {<<"utils">>} |-> File(src, "LF")], {Root})

\* the interpreter runs the call, and the loop once entered, step by step
FairClosure == InitFairClosure /\ [][NextClosure]_vars /\ WF_vars(NextClosure)

----------------------------------------------------------------------------
(* The projects move_symbol is called on *)

Fn(name, names) == DefStmt("def", name, {<<n>> : n \in names})

Import1(module, name, alias) == FromStmt(0, module, <<ImportAlias(name, alias)>>)

\* utils.py written by hand: the shared helper of the tests, two aliases
\* of one imported name, a plain import used through an attribute, and a
\* function whose name is part of another function's name, a helper used
\* directly and through another helper; and a utils.py that does not parse
HandSources ==
    { Module({"utils"}, <<Import1(<<"m">>, "y", NoAlias),
                          Fn("h", {}), Fn("g", {"h", "y"}), Fn("k", {"h"})>>),
      Module({"utils"}, <<Import1(<<"m">>, "x", "y"), Import1(<<"m">>, "x", "z"),
                          Fn("g", {"y"}), Fn("h", {"z"}), Fn("k", {})>>),
      Module({"utils"}, <<PlainStmt(<<ImportAlias(<<"os">>, NoAlias)>>),
                          DefStmt("def", "g", {<<"os", "path">>}),
                          Fn("h", {"g"}), Fn("k", {})>>),
      Module({"utils"}, <<Fn("g", {}), Fn("gh", {}), Fn("k", {"gh"})>>),
      Module({"utils"}, <<Fn("g", {"h", "k"}), Fn("h", {"k"}), Fn("k", {})>>),
      Unparsable }

\* a file that imports g and h from `module` and uses them
Importer(doc, level, module) ==
    Module({doc}, <<FromStmt(level, module,
                             <<ImportAlias("g", NoAlias), ImportAlias("h", NoAlias)>>),
                    Fn("run", {"g", "h"})>>)

\* dest.py as it may exist already: it binds y to something else
DestWithY == Module({"dest"}, <<Import1(<<"other">>, "y", NoAlias)>>)

\* utils.py, main.py and dest.py in the project root
FlatProject(src, eol) ==
    [files |-> (<<"utils">> :> File(src, eol))
               @@ (<<"main">> :> File(Importer("main", 0, <<"utils">>), "LF"))
               @@ (<<"dest">> :> File(DestWithY, "LF")),
     dirs  |-> {Root}]

\* the package app with utils.py and main.py (a relative import), and
\* cli.py in the root (an absolute import)
PackageProject(src) ==
    [files |-> (<<"app", "__init__">> :> File(PackageInit, "LF"))
               @@ (<<"app", "utils">> :> File(src, "LF"))
               @@ (<<"app", "main">> :> File(Importer("main", 1, <<"utils">>), "LF"))
               @@ (<<"cli">> :> File(Importer("cli", 0, <<"app", "utils">>), "LF")),
     dirs  |-> {Root, <<"app">>}]

\* utils.py generated, and main.py; no destination file yet
GraphProject(src) ==
    [files |-> (<<"utils">> :> File(src, "LF"))
               @@ (<<"main">> :> File(Importer("main", 0, <<"utils">>), "LF")),
     dirs  |-> {Root}]

\* utils.py with an annotated variable g and a function h that uses it
AnnotatedProject ==
    GraphProject(Module({"utils"}, <<DefStmt("annassign", "g", {}), Fn("h", {"g"})>>))

MoveProjects ==
    {FlatProject(src, "LF") : src \in HandSources}
    \cup {AnnotatedProject}
    \cup {PackageProject(src) : src \in HandSources}
    \cup {GraphProject(src) : src \in GraphSourcesUpTo(MaxUses - 1)}

InitMove == \E p \in MoveProjects : InitProject(p.files, p.dirs)

\* the file the symbols are taken from, and the names it defines
SourceFiles(files) == {p \in DOMAIN files : Stem(p) = "utils"}

DefinedNames(files, p) == DOMAIN DefinitionCollector(files[p].content)

\* move_symbol(project_root, target, destination_file, dry_run,
\* include_deps, shared_file) on the symbols of utils.py
CallMove ==
    \E source_file \in SourceFiles(fs) :
      \E symbols \in (SUBSET DefinedNames(fs, source_file) \ {{}}) \cup {{"q"}},
         dest \in {Parent(source_file) \o <<"dest">>, <<"lib", "dest">>, source_file},
         dry_run \in BOOLEAN,
         policy \in {<<FALSE, NoPath>>, <<TRUE, NoPath>>,
                     <<FALSE, Parent(source_file) \o <<"common">>>>} :
        CallMoveSymbol(source_file, symbols, dest, dry_run, policy[1], policy[2])

NextMove ==
    \/ CallMove
    \/ ClosureVisitSymbol
    \/ ClosureVisitDep
    \/ ClosureNextPass
    \/ MovePrepare
    \/ MovePlan
    \/ MoveApply

SpecMove == InitMove /\ [][NextMove]_vars

----------------------------------------------------------------------------
(* The projects rename_symbol is called on *)

\* utils.py: g used through an import and by h; g beside a name q the file
\* does not define; g defined twice; a utils.py that does not parse
RenameSources ==
    { Module({"utils"}, <<Import1(<<"m">>, "y", NoAlias),
                          Fn("g", {"y"}), Fn("h", {"g"})>>),
      Module({"utils"}, <<Fn("g", {}), Fn("h", {"g", "q"})>>),
      Module({"utils"}, <<Fn("g", {}), DefStmt("assign", "g", {}), Fn("h", {})>>),
      Unparsable }

\* tool.py: `import utils`, `from utils import g as z` and a function that
\* uses utils.g and z
Tool ==
    Module({"tool"}, <<PlainStmt(<<ImportAlias(<<"utils">>, NoAlias)>>),
                       Import1(<<"utils">>, "g", "z"),
                       DefStmt("def", "t", {<<"utils", "g">>, <<"z">>})>>)

\* utils.py, main.py and tool.py in the project root
RenameProject(src, eol) ==
    [files |-> (<<"utils">> :> File(src, eol))
               @@ (<<"main">> :> File(Importer("main", 0, <<"utils">>), "LF"))
               @@ (<<"tool">> :> File(Tool, "LF")),
     dirs  |-> {Root}]

\* utils.py defines g and h; view.py has `from other import g` and a
\* function that uses that g
ForeignProject ==
    [files |-> (<<"utils">> :> File(Module({"utils"}, <<Fn("g", {}), Fn("h", {"g"})>>), "LF"))
               @@ (<<"view">> :> File(Module({"view"}, <<Import1(<<"other">>, "g", NoAlias),
                                                         Fn("v", {"g"})>>), "LF")),
     dirs  |-> {Root}]

RenameProjects ==
    {RenameProject(src, eol) : src \in RenameSources, eol \in {"LF", "CRLF"}}
    \cup {ForeignProject}

InitRename == \E p \in RenameProjects : InitProject(p.files, p.dirs)

RenameNames == {"g", "h", "q"}

\* rename_symbol(project_root, target, new_name, dry_run) on utils.py and
\* on a file that does not exist
CallRename ==
    \E file_path \in {<<"utils">>, <<"gone">>},
       old_name \in RenameNames, new_name \in RenameNames, dry_run \in BOOLEAN :
        CallRenameSymbol(file_path, old_name, new_name, dry_run)

NextRename ==
    \/ CallRename
    \/ RenamePlan
    \/ RenameApply

SpecRename == InitRename /\ [][NextRename]_vars

----------------------------------------------------------------------------
(* parsing.py: parse_target.  A target is a sequence of characters: "a" is
   a letter, "1" a digit, "\n" the newline. *)

\* \w
IsWordChar(c) == c \in {"a", "p", "y", "1", "_"}

\* \d
IsDigitChar(c) == c = "1"

\* (.+\.py) matches the first n characters: one character or more that is
\* not a newline, then .py
MatchesPath(t, n) ==
    /\ n >= 4 /\ n <= Len(t)
    /\ t[n - 2] = "." /\ t[n - 1] = "p" /\ t[n] = "y"
    /\ \A i \in 1..(n - 3) : t[i] # "\n"

\* $ after the first e characters: the end of the string, or the newline
\* the string ends with
MatchesEnd(t, e) == e = Len(t) \/ (e = Len(t) - 1 /\ t[Len(t)] = "\n")

\* \w+
MatchesWord(w) == w # <<>> /\ \A i \in DOMAIN w : IsWordChar(w[i])

\* \w+(?:,\w+)+
MatchesWords(w) ==
    /\ w # <<>>
    /\ \A i \in DOMAIN w : IsWordChar(w[i]) \/ w[i] = ","
    /\ \E i \in DOMAIN w : w[i] = ","
    /\ w[1] # "," /\ w[Len(w)] # ","
    /\ \A i \in 1..(Len(w) - 1) : ~(w[i] = "," /\ w[i + 1] = ",")

\* \d+
MatchesDigits(w) == w # <<>> /\ \A i \in DOMAIN w : IsDigitChar(w[i])

\* str.split(",")
RECURSIVE Split(_)
Split(w) ==
    IF \E i \in DOMAIN w : w[i] = ","
      THEN LET i == CHOOSE j \in DOMAIN w :
                      w[j] = "," /\ \A k \in 1..(j - 1) : w[k] # ","
           IN <<SubSeq(w, 1, i - 1)>> \o Split(SubSeq(w, i + 1, Len(w)))
      ELSE <<w>>

\* int(...)
RECURSIVE ToInt(_)
ToInt(w) == IF w = <<>> THEN 0 ELSE 10 * ToInt(Front(w)) + 1

\* the ways ^(.+\.py)::(<names>)$ matches, for the names of
\* MULTI_NAME_PATTERN or the name of NAME_PATTERN: the end of the path and
\* the end of the names
NameMatches(t, multi) ==
    {ne \in (1..Len(t)) \X (1..Len(t)) :
        /\ MatchesPath(t, ne[1])
        /\ ne[1] + 2 <= ne[2]
        /\ t[ne[1] + 1] = ":" /\ t[ne[1] + 2] = ":"
        /\ IF multi THEN MatchesWords(SubSeq(t, ne[1] + 3, ne[2]))
                    ELSE MatchesWord(SubSeq(t, ne[1] + 3, ne[2]))
        /\ MatchesEnd(t, ne[2])}

\* the ways ^(.+\.py):(\d+):(\d+)$ matches: the end of the path, of the
\* line and of the column
PositionMatches(t) ==
    {m \in (1..Len(t)) \X (1..Len(t)) \X (1..Len(t)) :
        /\ MatchesPath(t, m[1])
        /\ m[1] + 1 <= m[2] /\ m[2] + 1 <= m[3]
        /\ t[m[1] + 1] = ":"
        /\ MatchesDigits(SubSeq(t, m[1] + 2, m[2]))
        /\ t[m[2] + 1] = ":"
        /\ MatchesDigits(SubSeq(t, m[2] + 2, m[3]))
        /\ MatchesEnd(t, m[3])}

\* the match the regex engine reports: .+ takes as much as it can
Greedy(matches) == CHOOSE m \in matches : \A o \in matches : o[1] <= m[1]

\* parse_target: the three patterns in the order they are tried
parse_target(t) ==
    IF NameMatches(t, TRUE) # {}
      THEN LET m == Greedy(NameMatches(t, TRUE))
           IN [kind |-> "SymbolsByName",
               payload |-> {<<SubSeq(t, 1, m[1]), Split(SubSeq(t, m[1] + 3, m[2]))>>}]
    ELSE IF NameMatches(t, FALSE) # {}
      THEN LET m == Greedy(NameMatches(t, FALSE))
           IN [kind |-> "SymbolByName",
               payload |-> {<<SubSeq(t, 1, m[1]), <<SubSeq(t, m[1] + 3, m[2])>>>>}]
    ELSE IF PositionMatches(t) # {}
      THEN LET m == Greedy(PositionMatches(t))
           IN [kind |-> "SymbolByPosition",
               payload |-> {<<SubSeq(t, 1, m[1]),
                              <<ToInt(SubSeq(t, m[1] + 2, m[2])),
                                ToInt(SubSeq(t, m[2] + 2, m[3]))>>>>}]
    ELSE [kind |-> "TargetParseError", payload |-> {}]

\* the target strings: a first part, then up to MaxTail more characters
TargetHeads ==
    { <<"a", ".", "p", "y">>, <<".", "p", "y">>, <<"a", ".", "p">>, <<"a">>,
      <<"a", ".", "p", "y", ":", ":", "a", ".", "p", "y">> }

TargetTails ==
    UNION {[1..n -> {"a", "1", "_", ":", ",", "\n"}] : n \in 0..MaxTail}

Targets == {head \o tail : head \in TargetHeads, tail \in TargetTails}

InitParse == InitProject(<<>>, {Root})

\* parse_target(target)
CallParseTarget ==
    /\ pc = "idle"
    /\ \E t \in Targets :
         /\ call' = [NoCall EXCEPT !.op = "parse_target", !.target = t]
         /\ result' = parse_target(t)
    /\ pc' = "done"
    /\ calls' = calls + 1
    /\ UNCHANGED <<fs, dirs, cl, mv, changes, fs0, dirs0, prev>>

NextParse == CallParseTarget

SpecParse == InitParse /\ [][NextParse]_vars

----------------------------------------------------------------------------
(* remove_definition and find_definition on files with nested definitions *)

\* the statements the files are made of: g as a function, a variable and
\* an annotated variable; h, which uses g; the class k with a method g;
\* the function h with a local variable g; the class k with a nested
\* class g and a method h
NestedStmts ==
    { Fn("g", {}), DefStmt("assign", "g", {}), DefStmt("annassign", "g", {}),
      Fn("h", {"g"}),
      WithInner(DefStmt("class", "k", {}), <<NestedDef("def", "g")>>),
      WithInner(Fn("h", {}), <<NestedDef("assign", "g")>>),
      WithInner(DefStmt("class", "k", {}),
                <<NestedDef("class", "g"), NestedDef("def", "h")>>) }

NestedSources ==
    {Module({"utils"}, body) :
        body \in UNION {[1..n -> NestedStmts] : n \in 1..MaxBody}}

InitNested ==
    \E src \in NestedSources :
        InitProject([p \in {<<"utils">>} |-> File(src, "LF")], {Root})

NestedNames == {"g", "h", "q"}

\* remove_definition(source, symbol_name) on the text of utils.py; the new
\* text is kept in `changes`
CallRemoveDefinition ==
    /\ pc = "idle"
    /\ \E symbol_name \in NestedNames :
         LET r == remove_definition(ReadText(fs, <<"utils">>), symbol_name)
         IN /\ call' = [NoCall EXCEPT !.op = "remove_definition",
                                      !.file = <<"utils">>, !.symbols = {symbol_name}]
            /\ changes' = DictSet(<<>>, <<"utils">>, r.src)
            /\ result' = [kind |-> "ok", payload |-> {r.removed}]
    /\ pc' = "done"
    /\ calls' = calls + 1
    /\ UNCHANGED <<fs, dirs, cl, mv, fs0, dirs0, prev>>

\* SymbolTable(project_root).build() and find_definition(file_path, name)
CallFindDefinition ==
    /\ pc = "idle"
    /\ \E name \in NestedNames :
         /\ call' = [NoCall EXCEPT !.op = "find_definition",
                                   !.file = <<"utils">>, !.symbols = {name}]
         /\ result' = [kind |-> "ok",
                       payload |-> {find_definition(SymbolTable(fs), <<"utils">>, name)}]
    /\ pc' = "done"
    /\ calls' = calls + 1
    /\ UNCHANGED <<fs, dirs, cl, mv, changes, fs0, dirs0, prev>>

NextNested ==
    \/ CallRemoveDefinition
    \/ CallFindDefinition

SpecNested == InitNested /\ [][NextNested]_vars

----------------------------------------------------------------------------
(* The projects rename_file and move_file are called on *)

\* the package pkg with a.py and b.py; main.py imports pkg.b; b.py and
\* tool.py in the root, where tool.py imports the root's b; lib is a
\* directory without a package marker
FileProject(marker) ==
    [files |-> (<<"pkg", "__init__">> :> File(marker, "LF"))
               @@ (<<"pkg", "a">> :>
                     File(Module({"a"},
                                 <<FromStmt(1, <<>>, <<ImportAlias("b", NoAlias)>>),
                                   FromStmt(1, <<"b">>, <<ImportAlias("g", NoAlias)>>),
                                   Fn("run", {"g", "b"})>>), "LF"))
               @@ (<<"pkg", "b">> :> File(Module({"b"}, <<Fn("g", {})>>), "LF"))
               @@ (<<"main">> :>
                     File(Module({"main"},
                                 <<Import1(<<"pkg", "b">>, "g", NoAlias),
                                   PlainStmt(<<ImportAlias(<<"pkg", "b">>, NoAlias)>>)>>),
                          "LF"))
               @@ (<<"b">> :> File(Module({"rootb"}, <<Fn("h", {})>>), "CRLF"))
               @@ (<<"tool">> :>
                     File(Module({"tool"}, <<Import1(<<"b">>, "h", NoAlias),
                                             Fn("run", {"h"})>>), "LF")),
     dirs  |-> {Root, <<"pkg">>, <<"lib">>}]

\* the marker of pkg: the stub, or a marker that re-exports g
FileProjects ==
    {FileProject(marker) :
        marker \in {PackageInit,
                    Module({"pkg"}, <<FromStmt(1, <<"b">>, <<ImportAlias("g", NoAlias)>>)>>)}}

InitFile == \E p \in FileProjects : InitProject(p.files, p.dirs)

FileNames == {"c", "b", InitStem}

DestDirs == {<<"pkg", "sub">>, <<"lib">>, <<"pkg">>, Root}

CallRenameFile ==
    \E file_path \in DOMAIN fs \cup {<<"gone">>}, new_name \in FileNames,
       dry_run \in BOOLEAN :
        CallFileOp("rename_file", file_path, new_name, NoPath, dry_run)

CallMoveFile ==
    \E file_path \in DOMAIN fs \cup {<<"gone">>}, dest_dir \in DestDirs,
       dry_run \in BOOLEAN :
        CallFileOp("move_file", file_path, "", dest_dir, dry_run)

NextFile ==
    \/ CallRenameFile
    \/ CallMoveFile
    \/ FilePlan
    \/ FileWrite
    \/ FileMove

SpecFile == InitFile /\ [][NextFile]_vars

----------------------------------------------------------------------------
(* Properties of the move closure *)

ClosureReturned ==
    pc = "done" /\ call.op = "resolve_move_dependencies" /\ result.kind = "ok"

\* C7: the final move set returned by the move closure is a superset of
\* the seed, for any source file, seed list and policy.
C7_ClosureContainsSeed ==
    ClosureReturned => call.symbols \subseteq cl.move_set

\* a closure returned a move set that is larger than its seed
C7_Witness ==
    /\ ClosureReturned
    /\ call.symbols \subseteq cl.move_set
    /\ cl.move_set # call.symbols

\* C8: whenever the move closure returns a non-empty shared set, a
\* top-level definition of the file that is not in the final move set
\* references a symbol of the shared set.
C8_SharedHasRemainingUser ==
    (ClosureReturned /\ cl.shared_deps # {}) =>
        \E t \in DOMAIN Analyzer.definitions \ cl.move_set :
            get_names_used_by_node(Analyzer.definitions[t]) \cap cl.shared_deps # {}

\* the definitions reachable from `names` through internal dependencies
RECURSIVE Reachable(_)
Reachable(names) ==
    LET next == names \cup UNION {analyze_internal_dependencies(Analyzer, s) : s \in names}
    IN IF next = names THEN names ELSE Reachable(next)

C24_MoveAndSharedDisjoint ==
    ClosureReturned => cl.move_set \cap cl.shared_deps = {}

\* the internal dependencies of the symbols of the returned move set
MovedDependencies ==
    UNION {analyze_internal_dependencies(Analyzer, s) : s \in cl.move_set}

\* the top-level definitions other than d, outside the move set, that use d
OutsideUsers(d) ==
    {t \in DOMAIN Analyzer.definitions \ (cl.move_set \cup {d}) :
        d \in get_names_used_by_node(Analyzer.definitions[t])}

\* C26: when the move closure returns, every internal dependency D of every
\* symbol of the move set is in the move set or in the shared set, and D
\* is in the move set whenever no top-level definition outside the move set
\* uses D.
C26_DependenciesMovedOrShared ==
    ClosureReturned =>
        \A d \in MovedDependencies :
            /\ d \in cl.move_set \cup cl.shared_deps
            /\ OutsideUsers(d) = {} => d \in cl.move_set

\* a closure under the REJECT policy returned with a dependency pulled into
\* the move set, since nothing outside uses it, while another definition
\* stays behind
C26_Witness ==
    /\ ClosureReturned /\ ~call.include_deps
    /\ \E d \in MovedDependencies \ call.symbols :
          d \in cl.move_set /\ OutsideUsers(d) = {}
    /\ DOMAIN Analyzer.definitions \ cl.move_set # {}

\* C21: the loop of the move closure terminates for every source file,
\* seed and policy: a pass only adds symbols to move_set, which holds
\* nothing but the seed and top-level names of the file.
C21_ClosureTerminates ==
    /\ [][call.op = "resolve_move_dependencies" => cl.move_set \subseteq cl'.move_set]_vars
    /\ [](call.op = "resolve_move_dependencies"
            => cl.move_set \subseteq call.symbols \cup DOMAIN Analyzer.definitions)
    /\ (pc \in {"cl_loop", "cl_deps"}) ~> (pc = "done")

\* a closure returned after it had added two symbols or more to its seed
C21_Witness ==
    /\ ClosureReturned
    /\ Cardinality(cl.move_set) >= Cardinality(call.symbols) + 2

\* C25: the move set and the shared set the move closure returns depend on
\* the source file, the seed and the policy only: two runs that differ in
\* the order the symbols and dependencies are visited in return the same
\* two sets.
C25_ClosureOrderIndependent ==
    (ClosureReturned /\ prev.call = call /\ prev.result.kind = "ok")
    => prev.result.payload = {<<cl.move_set, cl.shared_deps>>}

----------------------------------------------------------------------------
(* Properties of move_symbol *)

\* the closure of the move in progress has returned
MoveClosureReturned ==
    call.op = "move_symbol" /\ pc \in {"mv_plan", "mv_write", "done"}
    /\ result.kind # "RefactoringError"

MoveDone == call.op = "move_symbol" /\ pc = "done"

\* a move that was applied and returned the changed paths
MoveApplied == MoveDone /\ result.kind = "ok" /\ ~call.dry_run

\* the shared symbols are extracted to a shared file
Extracted == mv.shared_file # NoPath /\ cl.shared_deps # {}

\* the absolute module a from-import of the file at `path` names
AbsModule(path, st) ==
    IF st.level = 0 THEN st.module
    ELSE SubSeq(Parent(path), 1, Len(Parent(path)) - (st.level - 1)) \o st.module

\* the file at `path` has a from-import of `name` from `module`
ImportsFromModule(content, path, name, module) ==
    \E st \in Range(content.stmts) :
        /\ st.kind = "from" /\ ~st.star
        /\ AbsModule(path, st) = module
        /\ \E a \in Range(st.names) : a.name = name

\* the file has the import statement of an ImportDependency
HasImport(content, imp) ==
    \E st \in Range(content.stmts) :
        IF imp.is_from_import
          THEN st.kind = "from" /\ ~st.star /\ st.level = imp.level
               /\ st.module = imp.module
               /\ \E a \in Range(st.names) : a.name = imp.name /\ a.alias = imp.alias
          ELSE st.kind = "import"
               /\ \E a \in Range(st.names) : a.name = imp.module /\ a.alias = imp.alias

\* C1: under the REJECT policy (include_deps false, no shared file given),
\* a move whose closure has a non-empty shared set raises CircularDependency
\* with the shared names as payload, and no symbol is moved.
C1_RejectRaisesCircularDependency ==
    (MoveDone /\ MoveClosureReturned /\ ~call.include_deps
       /\ call.shared_file = NoPath /\ cl.shared_deps # {})
    => (/\ result.kind = "CircularDependencyError"
        /\ result.payload = cl.shared_deps
        /\ fs = fs0)

\* C2: an operation called with dry_run leaves the filesystem exactly as
\* it was: no file or directory is created or written.
C2_DryRunLeavesFilesystem ==
    call.dry_run => (fs = fs0 /\ dirs = dirs0)

\* C3: after a successful move_symbol every import of the source file
\* binds a name the file uses.
C3_SourceHasNoUnusedImport ==
    MoveApplied =>
        \A st \in Range(ReadText(fs, call.file).stmts) :
            (IsImportStmt(st) /\ ~st.star) =>
                \A a \in Range(st.names) :
                    LocalName(st, a) \in UsedNamesCollector(ReadText(fs, call.file))

\* C4: after a successful move_symbol the destination file has, for every
\* moved symbol, the import of each import of the source file that the
\* symbol references.
C4_DestHasRequiredImports ==
    MoveApplied =>
        \A s \in Range(mv.moved_symbols) :
            \A imp \in analyze_required_imports(Analyzer, s) :
                HasImport(ReadText(fs, call.dest), imp)

\* C5: after a successful move_symbol, every other file that imported a
\* moved symbol from the source module imports it from the destination
\* module (an extracted shared symbol from the shared module), and imports
\* it from the source module no more.
C5_OtherFilesImportFromDestination ==
    MoveApplied =>
        \A f \in DOMAIN fs0 \ {call.file, call.dest, mv.shared_file} :
            \A s \in Range(mv.moved_symbols)
                     \cup (IF Extracted THEN cl.shared_deps ELSE {}) :
                ImportsFromModule(ReadText(fs0, f), f, s, path_to_module(call.file))
                => (/\ ImportsFromModule(ReadText(fs, f), f, s,
                                         IF s \in Range(mv.moved_symbols)
                                           THEN path_to_module(call.dest)
                                           ELSE path_to_module(mv.shared_file))
                    /\ ~ImportsFromModule(ReadText(fs, f), f, s,
                                          path_to_module(call.file)))

\* C6: in an operation that is not a dry run, no file or directory is
\* created or written before all the edits have been computed.
C6_NothingWrittenBeforeEditsComputed ==
    (~call.dry_run /\ pc \in {"cl_loop", "cl_deps", "mv_plan", "rn_plan"})
    => (fs = fs0 /\ dirs = dirs0)

\* the target file of the operation exists and parses
TargetParses == Exists(fs0, call.file) /\ Parses(ReadText(fs0, call.file))

\* C14: rename_symbol and move_symbol raise SymbolNotFound, and write
\* nothing, when a named symbol has no top-level definition in the target
\* file.
C14_UndefinedSymbolNotFound ==
    ((MoveDone \/ (pc = "done" /\ call.op = "rename_symbol"))
       /\ TargetParses
       /\ \E s \in call.symbols :
             s \notin DOMAIN DefinitionCollector(ReadText(fs0, call.file)))
    => (result.kind = "SymbolNotFoundError" /\ fs = fs0 /\ dirs = dirs0)

\* the names a file's text defines at top level
DefinedIn(files, path) == DOMAIN DefinitionCollector(ReadText(files, path))

\* C12: after move_symbol with a shared file, every symbol of the shared
\* set is defined in the shared file and in neither the source nor the
\* destination file; the destination file imports it from the shared
\* module, and so does the source file when a definition that remains
\* there references it.
C12_SharedSymbolsExtracted ==
    (MoveApplied /\ Extracted /\ call.shared_file # NoPath) =>
        \A s \in cl.shared_deps :
            /\ s \in DefinedIn(fs, mv.shared_file)
            /\ s \notin DefinedIn(fs, call.file)
            /\ s \notin DefinedIn(fs, call.dest)
            /\ ImportsFromModule(ReadText(fs, call.dest), call.dest, s,
                                 path_to_module(mv.shared_file))
            /\ (\E t \in DefinedIn(fs, call.file) :
                   s \in get_names_used_by_node(
                            DefinitionCollector(ReadText(fs, call.file))[t]))
               => ImportsFromModule(ReadText(fs, call.file), call.file, s,
                                    path_to_module(mv.shared_file))

\* the symbols a move took out of the source file
TakenSymbols ==
    Range(mv.moved_symbols) \cup (IF Extracted THEN cl.shared_deps ELSE {})

\* C22: after move_symbol, in every other file an import of a symbol that
\* was not moved still names the source module: a from-import of the source
\* module that lists a moved symbol beside one that was not moved does not
\* redirect the latter to the destination module.
C22_UnmovedImportsKeepModule ==
    MoveApplied =>
        \A f \in DOMAIN fs0 \ {call.file, call.dest, mv.shared_file} :
            \A s \in DefinedIn(fs0, call.file) \ TakenSymbols :
                ImportsFromModule(ReadText(fs0, f), f, s, path_to_module(call.file))
                => (/\ Exists(fs, f)
                    /\ ImportsFromModule(ReadText(fs, f), f, s,
                                         path_to_module(call.file)))

\* the files a move puts definitions in
MoveFiles == {call.file, call.dest, mv.shared_file} \ {NoPath}

\* how many top-level definitions of `name` the given files hold
DefinitionCount(files, paths, name) ==
    Cardinality({<<p, i>> \in UNION {{<<q, j>> : j \in DOMAIN ReadText(files, q).stmts} :
                                        q \in paths \cap DOMAIN files} :
                    LET st == ReadText(files, p).stmts[i]
                    IN IsDefStmt(st) /\ st.name = name})

\* C23: after a successful move_symbol that is not a dry run, every
\* top-level definition of the original source file exists exactly once
\* across the source, destination and shared files; a symbol of the move
\* set is defined in the destination and no longer in the source.  This
\* holds for every kind of definition, and when the destination is the
\* source file.
C23_DefinitionsKeptOnce ==
    MoveApplied =>
        /\ \A n \in DefinedIn(fs0, call.file) :
              DefinitionCount(fs, MoveFiles, n) = DefinitionCount(fs0, MoveFiles, n)
        /\ \A s \in cl.move_set \ (IF Extracted THEN cl.shared_deps ELSE {}) :
              /\ s \in DefinedIn(fs, call.dest)
              /\ call.dest # call.file => s \notin DefinedIn(fs, call.file)

----------------------------------------------------------------------------
(* Properties of rename_symbol *)

\* a token of the file's text
Occurs(files, name) == \E p \in DOMAIN files : name \in TextTokens(ReadText(files, p))

\* rename A -> B was applied, and then rename B -> A was called on the same
\* target and has finished
RoundTrip ==
    /\ pc = "done" /\ call.op = "rename_symbol" /\ ~call.dry_run
    /\ prev.call.op = "rename_symbol" /\ ~prev.call.dry_run
    /\ prev.result.kind = "ok"
    /\ prev.call.file = call.file
    /\ call.symbols = {prev.call.new_name}
    /\ prev.call.symbols = {call.new_name}

C10_RenameToSameName ==
    (pc = "done" /\ call.op = "rename_symbol" /\ call.symbols = {call.new_name})
    => fs = fs0

\* the top-level definitions of `name` in a file's text
DefinitionsOf(content, name) ==
    {i \in DOMAIN content.stmts :
        IsDefStmt(content.stmts[i]) /\ content.stmts[i].name = name}

RenameDone == pc = "done" /\ call.op = "rename_symbol"

\* C16: rename_symbol raises AmbiguousSymbol, with every matching
\* definition as payload and nothing written, when the target file has
\* more than one top-level definition of old_name.
C16_AmbiguousSymbolRaised ==
    \A old_name \in call.symbols :
        (RenameDone /\ Exists(fs0, call.file)
           /\ Cardinality(DefinitionsOf(ReadText(fs0, call.file), old_name)) > 1)
        => /\ result.kind = "AmbiguousSymbolError"
           /\ \A d \in result.payload : d[1] = call.file
           /\ Cardinality(result.payload)
                 = Cardinality(DefinitionsOf(ReadText(fs0, call.file), old_name))
           /\ fs = fs0 /\ dirs = dirs0

\* a rename of g in a utils.py that defines g as a function and as a
\* variable was refused with both definitions as payload
C16_Witness ==
    /\ RenameDone /\ call.symbols = {"g"} /\ call.file = <<"utils">>
    /\ Cardinality(DefinitionsOf(ReadText(fs0, call.file), "g")) = 2
    /\ result.kind = "AmbiguousSymbolError"
    /\ Cardinality(result.payload) = 2
    /\ fs = fs0

\* C15: when the target file of rename_symbol or move_symbol exists but
\* does not parse, the operation fails with RefactoringError, with no
\* other kind of error, and writes nothing.
C15_UnparsableTargetRefused ==
    ((RenameDone \/ MoveDone)
       /\ Exists(fs0, call.file) /\ ~Parses(ReadText(fs0, call.file)))
    => (result.kind = "RefactoringError" /\ fs = fs0 /\ dirs = dirs0)

\* the file has a from-import of `name` from the module, or a star import
\* of the module
ImportsNameFrom(content, module, name) ==
    \E st \in Range(content.stmts) :
        /\ st.kind = "from" /\ st.module = module
        /\ (st.star \/ \E a \in Range(st.names) : a.name = name)

\* the Name nodes of each statement of a file
DirectReferences(content) ==
    [i \in DOMAIN content.stmts |-> {b \in content.stmts[i].body : Len(b) = 1}]

\* C27: rename_symbol renames old_name throughout another file F only if F
\* imports old_name from the target file or star-imports the target file;
\* a file that imports a symbol of the same name from a different module
\* keeps its direct references to the name.
C27_ForeignNameKept ==
    (RenameDone /\ result.kind = "ok" /\ ~call.dry_run) =>
        \A f \in DOMAIN fs0 \ {call.file} :
            (/\ Parses(ReadText(fs0, f))
             /\ ~ImportsNameFrom(ReadText(fs0, f), path_to_module(call.file),
                                 CHOOSE n \in call.symbols : TRUE))
            => DirectReferences(ReadText(fs, f)) = DirectReferences(ReadText(fs0, f))

----------------------------------------------------------------------------
(* Properties of rename_file and move_file *)

FileOpDone == pc = "done" /\ call.op \in {"rename_file", "move_file"}

\* a file operation that moved the file and returned its new path
FileOpApplied == FileOpDone /\ result.kind = "ok" /\ ~call.dry_run

\* a dotted module name with its last component replaced
ReplaceLast(module, n) == IF module = <<>> THEN <<n>> ELSE Front(module) \o <<n>>

\* C18: for every source file f of the project and every new stem n, the
\* module name of the file rename_file(f, n) produces is the module name
\* of f with its last dotted component replaced by n.
C18_RenamedModuleName ==
    (FileOpApplied /\ call.op = "rename_file") =>
        \A new_file \in result.payload :
            path_to_module(new_file) = ReplaceLast(path_to_module(call.file), call.new_name)

\* C18, amended: when neither f nor the new stem is a package marker, the
\* file rename_file(f, n) produces exists, and its module name is the
\* module name of f with its last dotted component replaced by n.
C18_RenamedModuleNameNoMarker ==
    (FileOpApplied /\ call.op = "rename_file"
       /\ Stem(call.file) # InitStem /\ call.new_name # InitStem) =>
        /\ result.payload # {}
        /\ \A new_file \in result.payload :
              /\ Exists(fs, new_file)
              /\ path_to_module(new_file)
                    = ReplaceLast(path_to_module(call.file), call.new_name)

\* pkg/b.py was renamed to pkg/c.py, the module pkg.c
C18_Witness ==
    /\ FileOpApplied /\ call.op = "rename_file"
    /\ call.file = <<"pkg", "b">> /\ call.new_name = "c"
    /\ result.payload = {<<"pkg", "c">>}
    /\ Exists(fs, <<"pkg", "c">>) /\ ~Exists(fs, <<"pkg", "b">>)
    /\ path_to_module(<<"pkg", "c">>) = <<"pkg", "c">>

\* the statement of the file at `path` is a relative import of `module`:
\* from <dots><module> import ..., or from <dots><parent> import <stem>
RelativeImportOf(path, st, module) ==
    /\ st.kind = "from" /\ st.level >= 1
    /\ \/ AbsModule(path, st) = module
       \/ /\ ~st.star
          /\ \E a \in Range(st.names) : AbsModule(path, st) \o <<a.name>> = module

\* C17: after move_file, a relative import of the moved module in another
\* file resolves to the new location (pkg/b.py moved into pkg/sub: the
\* `from . import b` of pkg/a.py imports from .sub), and a destination
\* directory that did not exist has its package marker.
C17_RelativeImportsFollowMovedFile ==
    (FileOpApplied /\ call.op = "move_file") =>
        /\ call.dest \notin dirs0 => Exists(fs, call.dest \o <<InitStem>>)
        /\ \A f \in DOMAIN fs0 \ {call.file} :
             \A i \in DOMAIN ReadText(fs0, f).stmts :
                RelativeImportOf(f, ReadText(fs0, f).stmts[i], path_to_module(call.file))
                => /\ Exists(fs, f)
                   /\ RelativeImportOf(f, ReadText(fs, f).stmts[i],
                                       path_to_module(MovedFile(call.file, call.dest)))

\* the directory the operation puts its result in
DestinationDir == IF call.op = "move_file" THEN call.dest ELSE Parent(call.dest)

\* C19: after a successful move_file or move_symbol that is not a dry run,
\* every directory from the destination directory up to, not including,
\* the project root has a package marker, and a marker that existed before
\* the operation has the content it had.
C19_DestinationPackageMarkers ==
    ((FileOpApplied /\ call.op = "move_file") \/ MoveApplied) =>
        /\ \A d \in Ancestors(DestinationDir) \ {Root} : Exists(fs, d \o <<InitStem>>)
        /\ \A m \in DOMAIN fs0 \ {call.file} :
              Stem(m) = InitStem => (Exists(fs, m) /\ fs[m] = fs0[m])

\* C30: rename_file and move_file never replace a file that exists at the
\* new path: when the new path is occupied the operation fails, and the
\* target file and the file at the new path keep their content.
C30_OccupiedPathRefused ==
    (FileOpDone /\ ~call.dry_run /\ Exists(fs0, call.file)
       /\ NewFile # call.file /\ Exists(fs0, NewFile))
    => /\ result.kind \notin {"ok", "none"}
       /\ Exists(fs, call.file) /\ fs[call.file] = fs0[call.file]
       /\ Exists(fs, NewFile) /\ fs[NewFile] = fs0[NewFile]

----------------------------------------------------------------------------
(* Properties of the four operations *)

\* the symbols the operation is about: the named ones and those its
\* closure added
TargetSymbols == call.symbols \cup cl.move_set \cup cl.shared_deps

\* the files the operation reads from or produces
TargetFiles ==
    {call.file, call.dest, mv.shared_file}
    \cup (IF call.op \in {"rename_file", "move_file"} THEN {NewFile} ELSE {})

\* the file at `path` has an import of `module`: from <module> import ...,
\* from <parent> import <stem>, or import <module>
ImportsModule(content, path, module) ==
    \E st \in Range(content.stmts) :
        \/ /\ st.kind = "from"
           /\ \/ AbsModule(path, st) = module
              \/ /\ ~st.star
                 /\ \E a \in Range(st.names) : AbsModule(path, st) \o <<a.name>> = module
        \/ /\ st.kind = "import"
           /\ \E a \in Range(st.names) : a.name = module

\* C11: after any of the four operations, a file that does not contain a
\* target symbol's name, does not import the target symbol or the target
\* module, and is not the source, destination or shared file, is not
\* written: it has the bytes it had.
C11_NoPhantomEdits ==
    (pc = "done" /\ call.op \in {"rename_symbol", "move_symbol", "rename_file", "move_file"}
       /\ Exists(fs0, call.file))
    => \A f \in DOMAIN fs0 \ TargetFiles :
          (/\ \A s \in TargetSymbols : ~TextContains(ReadText(fs0, f), s)
           /\ ~ImportsModule(ReadText(fs0, f), f, path_to_module(call.file)))
          => (Exists(fs, f) /\ fs[f] = fs0[f])

----------------------------------------------------------------------------
(* Properties of parse_target *)

\* ident := letter|_ (letter|digit|_)*
IsIdent(w) ==
    /\ w # <<>>
    /\ w[1] \in {"a", "p", "y", "_"}
    /\ \A i \in DOMAIN w : w[i] \in {"a", "p", "y", "1", "_"}

\* ident ("," ident)*, with `least` idents or more
IsIdentList(w, least) ==
    /\ w # <<>> /\ w[1] # "," /\ w[Len(w)] # ","
    /\ \A i \in DOMAIN w :
          w[i] = "," \/
          (\E a \in 1..i, b \in i..Len(w) :
              /\ (a = 1 \/ w[a - 1] = ",")
              /\ (b = Len(w) \/ w[b + 1] = ",")
              /\ IsIdent(SubSeq(w, a, b)))
    /\ Cardinality({i \in DOMAIN w : w[i] = ","}) + 1 >= least

\* path := any string that ends in the source extension
IsPath(w) ==
    Len(w) >= 3 /\ SubSeq(w, Len(w) - 2, Len(w)) = <<".", "p", "y">>

\* the form of the target grammar the string has
TargetForm(t) ==
    IF \E n \in 1..Len(t) :
          /\ IsPath(SubSeq(t, 1, n)) /\ n + 2 <= Len(t)
          /\ t[n + 1] = ":" /\ t[n + 2] = ":"
          /\ IsIdentList(SubSeq(t, n + 3, Len(t)), 2)
      THEN "SymbolsByName"
    ELSE IF \E n \in 1..Len(t) :
          /\ IsPath(SubSeq(t, 1, n)) /\ n + 2 <= Len(t)
          /\ t[n + 1] = ":" /\ t[n + 2] = ":"
          /\ IsIdent(SubSeq(t, n + 3, Len(t)))
      THEN "SymbolByName"
    ELSE IF \E n \in 1..Len(t), m \in 1..Len(t) :
          /\ IsPath(SubSeq(t, 1, n)) /\ n + 1 <= m /\ m + 1 <= Len(t)
          /\ t[n + 1] = ":" /\ MatchesDigits(SubSeq(t, n + 2, m))
          /\ t[m + 1] = ":" /\ MatchesDigits(SubSeq(t, m + 2, Len(t)))
      THEN "SymbolByPosition"
    ELSE "TargetParseError"

\* C20: parse_target returns a multi-symbol target for
\* <path>::<ident>(,<ident>)+, a single-name target for <path>::<ident> and
\* a position target for <path>:<line>:<col>, where path ends in the source
\* extension and an ident is a letter or underscore followed by letters,
\* digits or underscores; every other string fails with TargetParseError.
C20_ParseTargetGrammar ==
    (pc = "done" /\ call.op = "parse_target") =>
        result.kind = TargetForm(call.target)

----------------------------------------------------------------------------
(* Properties of remove_definition and find_definition *)

\* the statement is a top-level class, function or assignment binding name
BindsAtTopLevel(st, name) ==
    st.kind \in {"def", "class", "assign"} /\ st.name = name

\* C28: remove_definition(source, name) removes the top-level class,
\* function or assignment binding name and nothing else: a definition of
\* the same name nested in a class or function that stays is untouched.
C28_RemovesTopLevelOnly ==
    \A name \in call.symbols :
        (pc = "done" /\ call.op = "remove_definition") =>
            DictGet(changes, call.file).stmts
                = SelectSeq(ReadText(fs, call.file).stmts,
                            LAMBDA st : ~BindsAtTopLevel(st, name))

\* C29: find_definition(file, name) returns the top-level definition of
\* name in the file, or none when there is no such definition; it never
\* returns a class or function nested in another class or function.
C29_FindsTopLevelOnly ==
    \A name \in call.symbols :
        (pc = "done" /\ call.op = "find_definition") =>
            \A d \in result.payload :
                IF \E st \in Range(ReadText(fs, call.file).stmts) :
                       IsDefStmt(st) /\ st.name = name
                  THEN d = Definition(name, <<>>)
                  ELSE d = NoDefinition

====
